---- MODULE Spec2Model ----
(***************************************************************************)
(* SpecCraft: role-gated workflow, revision snapshots and traceability     *)
(* links.  Every request handler is a sequence of steps, one per storage   *)
(* call (the only suspension points of a handler); a request slot holds    *)
(* the handler's local variables between two storage calls.                *)
(***************************************************************************)
EXTENDS Integers, Sequences, FiniteSets, TLC

\* ---------------------------------------------------------------- bounds
NumClients == 2
MaxLifeDocs == 1
MaxDocs == 3
MaxRevisions == 2
MaxEdges == 3
MaxConcDocs == 2
MaxGraphDocs == 4
MaxGraphEdges == 4
MaxTextLen == 3
MaxConcRevisions == 3

\* ------------------------------------------------------ types and tables
NULL == "null"

\* null where a document (or a part of one) is expected
NoDocument == [null |-> TRUE]

Stages == {"Idea", "Draft", "Review", "Ready", "InProgress", "Done"}

Roles == {"PM", "TA", "Dev", "QA", "Stakeholder"}

\* One account per role; the userId of the account is the name of its role.
\* NULL is a caller without a valid session.
Users == Roles \cup {NULL}

RoleOf(userId) == userId

\* The request bodies sent to PUT /api/specs/:id: an edit with a new title
\* and body whose frontmatter names the stage Done (it changes the stage of
\* a document that is not Done and keeps the stage of one that is), and a
\* body the schema rejects (empty content).
PutInputs ==
  { [title |-> "t2", status |-> "Done", content |-> "b2"],
    [title |-> "t1", status |-> "Idea", content |-> ""] }

\* The callers of the create and update endpoints.
CreateUsers == {"PM", NULL}

PutUsers == {"Dev", "QA", NULL}

Reqs == 1..NumClients

DocIds == 1..MaxDocs

WORKFLOW_TRANSITIONS_reopen ==
  << [from |-> "Idea", to |-> "Draft", allowedRoles |-> {"PM", "TA"}],
     [from |-> "Draft", to |-> "Review", allowedRoles |-> {"PM", "TA"}],
     [from |-> "Review", to |-> "Draft", allowedRoles |-> {"PM"}],
     [from |-> "Review", to |-> "Ready", allowedRoles |-> {"PM", "Stakeholder"}],
     [from |-> "Ready", to |-> "InProgress", allowedRoles |-> {"Dev"}],
     [from |-> "InProgress", to |-> "Done", allowedRoles |-> {"QA"}],
     [from |-> "Done", to |-> "InProgress", allowedRoles |-> {"QA"}] >>

WORKFLOW_TRANSITIONS ==
  << [from |-> "Idea", to |-> "Draft", allowedRoles |-> {"PM", "TA"}],
     [from |-> "Draft", to |-> "Review", allowedRoles |-> {"PM", "TA"}],
     [from |-> "Review", to |-> "Draft", allowedRoles |-> {"PM"}],
     [from |-> "Review", to |-> "Ready", allowedRoles |-> {"PM", "Stakeholder"}],
     [from |-> "Ready", to |-> "InProgress", allowedRoles |-> {"Dev"}],
     [from |-> "InProgress", to |-> "Done", allowedRoles |-> {"QA"}] >>

ROLE_PERMISSIONS ==
  [role \in Roles |->
     CASE role = "PM" ->
            {"spec:create", "spec:read", "spec:update", "spec:delete",
             "spec:transition", "comment:create", "comment:read",
             "comment:update", "comment:delete", "traceability:create",
             "traceability:read", "traceability:delete", "file:upload",
             "file:read", "ai:use"}
       [] role = "TA" ->
            {"spec:create", "spec:read", "spec:update", "spec:transition",
             "comment:create", "comment:read", "comment:update",
             "traceability:create", "traceability:read", "file:upload",
             "file:read", "ai:use"}
       [] role = "Dev" ->
            {"spec:read", "spec:update", "spec:transition", "comment:create",
             "comment:read", "traceability:read", "file:upload", "file:read",
             "ai:use"}
       [] role = "QA" ->
            {"spec:read", "spec:transition", "comment:create", "comment:read",
             "traceability:read", "file:read", "ai:use"}
       [] OTHER ->
            {"spec:read", "spec:transition", "comment:create", "comment:read",
             "traceability:read", "file:read"}]

hasPermission(role, permission) == permission \in ROLE_PERMISSIONS[role]

\* WORKFLOW_TRANSITIONS.find(...): the first entry for the pair, if any.
canTransitionWorkflow_anyRole(role, from, to) ==
  \E i \in 1..Len(WORKFLOW_TRANSITIONS) :
     /\ WORKFLOW_TRANSITIONS[i].from = from
     /\ WORKFLOW_TRANSITIONS[i].to = to

canTransitionWorkflow(role, from, to) ==
  LET found == { i \in 1..Len(WORKFLOW_TRANSITIONS) :
                   /\ WORKFLOW_TRANSITIONS[i].from = from
                   /\ WORKFLOW_TRANSITIONS[i].to = to }
  IN  IF found = {}
        THEN FALSE
        ELSE LET first == CHOOSE i \in found : \A j \in found : i <= j
             IN  role \in WORKFLOW_TRANSITIONS[first].allowedRoles

\* Variant: the filter ignores the role.
getValidTransitions_anyRole(role, currentStage) ==
  LET Keep(t) == t.from = currentStage
      kept == SelectSeq(WORKFLOW_TRANSITIONS, Keep)
  IN  [i \in 1..Len(kept) |-> kept[i].to]

\* Variant: the filter ignores the current stage.
getValidTransitions_anyStage(role, currentStage) ==
  LET Keep(t) == role \in t.allowedRoles
      kept == SelectSeq(WORKFLOW_TRANSITIONS, Keep)
  IN  [i \in 1..Len(kept) |-> kept[i].to]

\* filter(...).map(t => t.to), in table order.
getValidTransitions(role, currentStage) ==
  LET Keep(t) == t.from = currentStage /\ role \in t.allowedRoles
      kept == SelectSeq(WORKFLOW_TRANSITIONS, Keep)
  IN  [i \in 1..Len(kept) |-> kept[i].to]

isValidTransition_fromOnly(from, to) ==
  \E i \in 1..Len(WORKFLOW_TRANSITIONS) : WORKFLOW_TRANSITIONS[i].from = from

isValidTransition(from, to) ==
  \E i \in 1..Len(WORKFLOW_TRANSITIONS) :
     /\ WORKFLOW_TRANSITIONS[i].from = from
     /\ WORKFLOW_TRANSITIONS[i].to = to

\* The stored content is the serialized frontmatter followed by the body.
combineMarkdown(metadata, content) == [frontmatter |-> metadata, body |-> content]

\* ------------------------------------------------------------------ state
VARIABLES
  specs,      \* collection 'specs': DocIds -> Spec record, NoDocument when absent
  nextId,     \* the next fresh ObjectId handed out by create
  revisions,  \* collection 'revisions', in insertion order
  edges,      \* collection 'traceability', in insertion order
  req         \* request slots: the locals of the handlers in flight

vars == <<specs, nextId, revisions, edges, req>>

Idle ==
  [kind |-> "idle", pc |-> "idle", user |-> NULL, id |-> 0,
   toStage |-> NULL, metadata |-> NoDocument, content |-> NoDocument,
   existing |-> NoDocument, spec |-> NoDocument,
   parentId |-> 0, childId |-> 0, parentSpec |-> NULL,
   childSpec |-> NULL, queue |-> <<>>, ancestors |-> <<>>,
   descendants |-> <<>>, stack |-> <<>>, visited |-> <<>>,
   tree |-> NoDocument, oldContent |-> <<>>, newContent |-> <<>>,
   format |-> NULL, changes |-> <<>>, diffBlocks |-> <<>>,
   oldLineNumber |-> 0, newLineNumber |-> 0, lineNumber |-> 0,
   version |-> 0, found |-> <<>>, validTransitions |-> <<>>, resp |-> NULL]

Init ==
  /\ specs = [d \in DocIds |-> NoDocument]
  /\ nextId = 1
  /\ revisions = <<>>
  /\ edges = <<>>
  /\ req = [r \in Reqs |-> Idle]

InFlight(r) == req[r].pc \notin {"idle", "done"}

\* The handler returns a response; its locals are dropped.
Respond(r, code) == req' = [req EXCEPT ![r].pc = "done", ![r].resp = code]

Return(r) ==
  /\ req[r].pc = "done"
  /\ req' = [req EXCEPT ![r] = Idle]
  /\ UNCHANGED <<specs, nextId, revisions, edges>>

\* Any storage call may throw; every handler's catch block answers 500.
StorageFailure(r) ==
  /\ InFlight(r)
  /\ Respond(r, "INTERNAL_ERROR")
  /\ UNCHANGED <<specs, nextId, revisions, edges>>

\* ------------------------------------------------- POST /api/specs (create)
DefaultContent(title) == <<"# ", title, "Start writing your specification here...">>

\* SpecRepository.createSpec: the document as inserted.
createSpec(title, content, metadata, createdBy) ==
  [title |-> title, content |-> content, metadata |-> metadata,
   createdBy |-> createdBy, updatedBy |-> createdBy, currentVersion |-> 1]

StartCreate(r, user, title) ==
  /\ req[r].pc = "idle"
  /\ nextId <= MaxDocs
  /\ IF user = NULL
       THEN req' = [req EXCEPT ![r] = [Idle EXCEPT !.kind = "create", !.pc = "done",
                                        !.user = user, !.resp = "AUTH_REQUIRED"]]
       ELSE IF title = ""
         THEN req' = [req EXCEPT ![r] = [Idle EXCEPT !.kind = "create", !.pc = "done",
                                          !.user = user, !.resp = "VALIDATION_ERROR"]]
         ELSE LET metadata == [title |-> title, status |-> "Idea", type |-> "epic"]
              IN  req' = [req EXCEPT ![r] =
                            [Idle EXCEPT !.kind = "create", !.pc = "create",
                                         !.user = user, !.metadata = metadata,
                                         !.content = combineMarkdown(metadata, DefaultContent(title))]]
  /\ UNCHANGED <<specs, nextId, revisions, edges>>

CreateInsert(r) ==
  /\ req[r].kind = "create" /\ req[r].pc = "create"
  /\ nextId <= MaxDocs
  /\ specs' = [specs EXCEPT ![nextId] =
                 createSpec(req[r].metadata.title, req[r].content, req[r].metadata, req[r].user)]
  /\ nextId' = nextId + 1
  /\ req' = [req EXCEPT ![r].pc = "done", ![r].id = nextId, ![r].resp = "CREATED"]
  /\ UNCHANGED <<revisions, edges>>

\* --------------------------------------------- PUT /api/specs/:id (update)
\* RevisionRepository.createRevision: the revision as inserted.
createRevision(specId, version, content, metadata, author) ==
  [specId |-> specId, version |-> version, content |-> content,
   metadata |-> metadata, author |-> author]

\* SpecRepository.updateSpec: the $set document built from the spec it read.
updateSpec_sameVersion(spec, content, metadata, updatedBy) ==
  [spec EXCEPT !.content = content, !.metadata = metadata,
               !.title = metadata.title, !.updatedBy = updatedBy]

updateSpec(spec, content, metadata, updatedBy) ==
  [spec EXCEPT !.content = content, !.metadata = metadata,
               !.title = metadata.title, !.updatedBy = updatedBy,
               !.currentVersion = @ + 1]

\* findOneAndUpdate({_id}, {$set: fields}): only the fields of the $set change.
updateById(doc, fields) ==
  [doc EXCEPT !.content = fields.content, !.metadata = fields.metadata,
              !.title = fields.title, !.updatedBy = fields.updatedBy,
              !.currentVersion = fields.currentVersion]

StartPut(r, user, id, title, status, body) ==
  /\ req[r].pc = "idle"
  /\ IF user = NULL
       THEN req' = [req EXCEPT ![r] = [Idle EXCEPT !.kind = "put", !.pc = "done", !.id = id,
                                        !.user = user, !.resp = "AUTH_REQUIRED"]]
       ELSE IF ~hasPermission(RoleOf(user), "spec:update")
         THEN req' = [req EXCEPT ![r] = [Idle EXCEPT !.kind = "put", !.pc = "done", !.id = id,
                                          !.user = user, !.resp = "FORBIDDEN"]]
         ELSE IF body = "" \/ title = ""
           THEN req' = [req EXCEPT ![r] = [Idle EXCEPT !.kind = "put", !.pc = "done", !.id = id,
                                            !.user = user, !.resp = "VALIDATION_ERROR"]]
           ELSE LET metadata == [title |-> title, status |-> status, type |-> "epic"]
                IN  req' = [req EXCEPT ![r] =
                              [Idle EXCEPT !.kind = "put", !.pc = "findById", !.id = id,
                                           !.user = user, !.metadata = metadata,
                                           !.content = combineMarkdown(metadata, body)]]
  /\ UNCHANGED <<specs, nextId, revisions, edges>>

PutFindById(r) ==
  /\ req[r].kind = "put" /\ req[r].pc = "findById"
  /\ IF specs[req[r].id] = NoDocument
       THEN Respond(r, "NOT_FOUND")
       ELSE req' = [req EXCEPT ![r].pc = "createRevision", ![r].existing = specs[req[r].id]]
  /\ UNCHANGED <<specs, nextId, revisions, edges>>

PutCreateRevision_swallow(r) ==
  /\ req[r].kind = "put" /\ req[r].pc = "createRevision"
  /\ \/ revisions' = Append(revisions,
                        createRevision(req[r].id, req[r].existing.currentVersion,
                                       req[r].existing.content, req[r].existing.metadata,
                                       req[r].user))
     \/ revisions' = revisions
  /\ req' = [req EXCEPT ![r].pc = "updateSpec.findById"]
  /\ UNCHANGED <<specs, nextId, edges>>

PutCreateRevision(r) ==
  /\ req[r].kind = "put" /\ req[r].pc = "createRevision"
  /\ revisions' = Append(revisions,
                     createRevision(req[r].id, req[r].existing.currentVersion,
                                    req[r].existing.content, req[r].existing.metadata,
                                    req[r].user))
  /\ req' = [req EXCEPT ![r].pc = "updateSpec.findById"]
  /\ UNCHANGED <<specs, nextId, edges>>

PutUpdateSpecFindById(r) ==
  /\ req[r].kind = "put" /\ req[r].pc = "updateSpec.findById"
  /\ IF specs[req[r].id] = NoDocument
       THEN Respond(r, "INTERNAL_ERROR")
       ELSE req' = [req EXCEPT ![r].pc = "updateSpec.updateById", ![r].spec = specs[req[r].id]]
  /\ UNCHANGED <<specs, nextId, revisions, edges>>

PutUpdateById(r) ==
  /\ req[r].kind = "put" /\ req[r].pc = "updateSpec.updateById"
  /\ IF specs[req[r].id] = NoDocument
       THEN Respond(r, "INTERNAL_ERROR") /\ UNCHANGED specs
       ELSE /\ specs' = [specs EXCEPT ![req[r].id] =
                           updateById(@, updateSpec(req[r].spec, req[r].content,
                                                    req[r].metadata, req[r].user))]
            /\ Respond(r, "OK")
  /\ UNCHANGED <<nextId, revisions, edges>>

\* ------------------------------ POST /api/specs/:id/transition (workflow)
\* SpecRepository.transitionStage: {$set: {'metadata.status', updatedBy}}.
transitionStage_bumpVersion(doc, newStage, updatedBy) ==
  [doc EXCEPT !.metadata.status = newStage, !.updatedBy = updatedBy,
              !.currentVersion = @ + 1]

transitionStage(doc, newStage, updatedBy) ==
  [doc EXCEPT !.metadata.status = newStage, !.updatedBy = updatedBy]

StartTransition(r, user, id, toStage) ==
  /\ req[r].pc = "idle"
  /\ IF user = NULL
       THEN req' = [req EXCEPT ![r] = [Idle EXCEPT !.kind = "transition", !.pc = "done", !.id = id,
                                        !.user = user, !.resp = "AUTH_REQUIRED"]]
       ELSE IF toStage = ""
         THEN req' = [req EXCEPT ![r] = [Idle EXCEPT !.kind = "transition", !.pc = "done", !.id = id,
                                          !.user = user, !.resp = "VALIDATION_ERROR"]]
         ELSE req' = [req EXCEPT ![r] =
                        [Idle EXCEPT !.kind = "transition", !.pc = "findById", !.id = id,
                                     !.user = user, !.toStage = toStage]]
  /\ UNCHANGED <<specs, nextId, revisions, edges>>

\* The route reads the document, then validates structure, then role.
\* WorkflowTransitionButton: the page of document specId, shown to a signed-in
\* user, offers getValidTransitions(userRole, currentStage); with no target
\* the button is not rendered, otherwise the user picks one of the offered
\* stages and the confirmation posts it to the transition endpoint.
WorkflowTransitionButton(r, userRole, specId) ==
  /\ req[r].pc = "idle"
  /\ specs[specId] # NoDocument
  /\ LET validTransitions == getValidTransitions(userRole, specs[specId].metadata.status)
     IN  \E k \in 1..Len(validTransitions) :
           req' = [req EXCEPT ![r] =
                     [Idle EXCEPT !.kind = "transition", !.pc = "findById", !.id = specId,
                                  !.user = userRole, !.toStage = validTransitions[k],
                                  !.validTransitions = validTransitions]]
  /\ UNCHANGED <<specs, nextId, revisions, edges>>

\* Variant: the route skips the role check of the transition.
TransitionFindById_noRoleCheck(r) ==
  /\ req[r].kind = "transition" /\ req[r].pc = "findById"
  /\ IF specs[req[r].id] = NoDocument
       THEN Respond(r, "NOT_FOUND")
       ELSE IF ~isValidTransition(specs[req[r].id].metadata.status, req[r].toStage)
         THEN req' = [req EXCEPT ![r].pc = "done", ![r].existing = specs[req[r].id],
                                 ![r].resp = "INVALID_TRANSITION"]
         ELSE req' = [req EXCEPT ![r].pc = "transitionStage.findById",
                                 ![r].existing = specs[req[r].id]]
  /\ UNCHANGED <<specs, nextId, revisions, edges>>

TransitionFindById(r) ==
  /\ req[r].kind = "transition" /\ req[r].pc = "findById"
  /\ IF specs[req[r].id] = NoDocument
       THEN Respond(r, "NOT_FOUND")
       ELSE LET spec == specs[req[r].id]
                currentStage == spec.metadata.status
            IN  IF ~isValidTransition(currentStage, req[r].toStage)
                  THEN req' = [req EXCEPT ![r].pc = "done", ![r].existing = spec,
                                          ![r].resp = "INVALID_TRANSITION"]
                  ELSE IF ~canTransitionWorkflow(RoleOf(req[r].user), currentStage, req[r].toStage)
                    THEN req' = [req EXCEPT ![r].pc = "done", ![r].existing = spec,
                                            ![r].resp = "FORBIDDEN"]
                    ELSE req' = [req EXCEPT ![r].pc = "transitionStage.findById",
                                            ![r].existing = spec]
  /\ UNCHANGED <<specs, nextId, revisions, edges>>

TransitionStageFindById(r) ==
  /\ req[r].kind = "transition" /\ req[r].pc = "transitionStage.findById"
  /\ IF specs[req[r].id] = NoDocument
       THEN Respond(r, "INTERNAL_ERROR")
       ELSE req' = [req EXCEPT ![r].pc = "transitionStage.updateById",
                               ![r].spec = specs[req[r].id]]
  /\ UNCHANGED <<specs, nextId, revisions, edges>>

TransitionUpdateById(r) ==
  /\ req[r].kind = "transition" /\ req[r].pc = "transitionStage.updateById"
  /\ IF specs[req[r].id] = NoDocument
       THEN Respond(r, "INTERNAL_ERROR") /\ UNCHANGED specs
       ELSE /\ specs' = [specs EXCEPT ![req[r].id] =
                           transitionStage(@, req[r].toStage, req[r].user)]
            /\ Respond(r, "OK")
  /\ UNCHANGED <<nextId, revisions, edges>>

\* ------------------------------------------ DELETE /api/specs/:id (delete)
StartDelete(r, user, id) ==
  /\ req[r].pc = "idle"
  /\ IF user = NULL
       THEN req' = [req EXCEPT ![r] = [Idle EXCEPT !.kind = "delete", !.pc = "done", !.id = id,
                                        !.user = user, !.resp = "AUTH_REQUIRED"]]
       ELSE IF ~hasPermission(RoleOf(user), "spec:delete")
         THEN req' = [req EXCEPT ![r] = [Idle EXCEPT !.kind = "delete", !.pc = "done", !.id = id,
                                          !.user = user, !.resp = "FORBIDDEN"]]
         ELSE req' = [req EXCEPT ![r] =
                        [Idle EXCEPT !.kind = "delete", !.pc = "deleteById", !.id = id,
                                     !.user = user]]
  /\ UNCHANGED <<specs, nextId, revisions, edges>>

DeleteById_cascade(r) ==
  /\ req[r].kind = "delete" /\ req[r].pc = "deleteById"
  /\ IF specs[req[r].id] = NoDocument
       THEN Respond(r, "NOT_FOUND") /\ UNCHANGED <<specs, revisions>>
       ELSE /\ specs' = [specs EXCEPT ![req[r].id] = NoDocument]
            /\ revisions' = SelectSeq(revisions, LAMBDA rev : rev.specId # req[r].id)
            /\ Respond(r, "OK")
  /\ UNCHANGED <<nextId, edges>>

\* BaseRepository.deleteById: deleteOne on the 'specs' collection only.
DeleteById(r) ==
  /\ req[r].kind = "delete" /\ req[r].pc = "deleteById"
  /\ IF specs[req[r].id] = NoDocument
       THEN Respond(r, "NOT_FOUND") /\ UNCHANGED specs
       ELSE /\ specs' = [specs EXCEPT ![req[r].id] = NoDocument]
            /\ Respond(r, "OK")
  /\ UNCHANGED <<nextId, revisions, edges>>

\* ------------------------------------- POST /api/traceability/link (link)
\* The callers of the link endpoints.
LinkUsers == {"PM", "Dev", NULL}

SelfLinkError == "VALIDATION_ERROR: Cannot link a spec to itself"

DuplicateLinkError == "VALIDATION_ERROR: Link already exists"

CircularDependencyError ==
  "VALIDATION_ERROR: Cannot create link: would create circular dependency"

\* TraceabilityRepository.findParents / findChildren / findLink.
findParents(childId) == SelectSeq(edges, LAMBDA link : link.childId = childId)

findChildren(parentId) == SelectSeq(edges, LAMBDA link : link.parentId = parentId)

findLink(parentId, childId) ==
  SelectSeq(edges, LAMBDA link : link.parentId = parentId /\ link.childId = childId)

\* A Set<string> keeps its members in insertion order, each once; Array.from
\* lists them in that order.
SetHas(set, value) == \E i \in 1..Len(set) : set[i] = value

SetAdd(set, value) == IF SetHas(set, value) THEN set ELSE Append(set, value)

\* getAncestors, the body of the while loop after findParents returned: for
\* every link, a parent not yet in the set is added and queued.
RECURSIVE VisitParents_noPush(_, _, _)
VisitParents_noPush(ancestors, queue, parents) ==
  IF parents = <<>>
    THEN [ancestors |-> ancestors, queue |-> queue]
    ELSE LET link == Head(parents)
         IN  IF ~SetHas(ancestors, link.parentId)
               THEN VisitParents_noPush(SetAdd(ancestors, link.parentId), queue, Tail(parents))
               ELSE VisitParents_noPush(ancestors, queue, Tail(parents))

RECURSIVE VisitParents(_, _, _)
VisitParents(ancestors, queue, parents) ==
  IF parents = <<>>
    THEN [ancestors |-> ancestors, queue |-> queue]
    ELSE LET link == Head(parents)
         IN  IF ~SetHas(ancestors, link.parentId)
               THEN VisitParents(SetAdd(ancestors, link.parentId),
                                 Append(queue, link.parentId), Tail(parents))
               ELSE VisitParents(ancestors, queue, Tail(parents))

\* hasCircularDependency, once getAncestors(parentId) has returned.
hasCircularDependency_swapped(ancestors, parentId, childId) == SetHas(ancestors, parentId)

hasCircularDependency(ancestors, parentId, childId) == SetHas(ancestors, childId)

StartLink_noSelfCheck(r, user, parentId, childId) ==
  /\ req[r].pc = "idle"
  /\ Len(edges) < MaxEdges
  /\ LET rejected(code) ==
           req' = [req EXCEPT ![r] = [Idle EXCEPT !.kind = "link", !.pc = "done",
                                       !.user = user, !.parentId = parentId,
                                       !.childId = childId, !.resp = code]]
     IN  IF user = NULL
           THEN rejected("AUTH_REQUIRED")
           ELSE IF parentId = 0 \/ childId = 0
             THEN rejected("VALIDATION_ERROR: parentId and childId are required")
             ELSE req' = [req EXCEPT ![r] =
                              [Idle EXCEPT !.kind = "link", !.pc = "findSpecs",
                                           !.user = user, !.parentId = parentId,
                                           !.childId = childId,
                                           !.parentSpec = "pending",
                                           !.childSpec = "pending"]]
  /\ UNCHANGED <<specs, nextId, revisions, edges>>

StartLink(r, user, parentId, childId) ==
  /\ req[r].pc = "idle"
  /\ Len(edges) < MaxEdges
  /\ LET rejected(code) ==
           req' = [req EXCEPT ![r] = [Idle EXCEPT !.kind = "link", !.pc = "done",
                                       !.user = user, !.parentId = parentId,
                                       !.childId = childId, !.resp = code]]
     IN  IF user = NULL
           THEN rejected("AUTH_REQUIRED")
           ELSE IF parentId = 0 \/ childId = 0
             THEN rejected("VALIDATION_ERROR: parentId and childId are required")
             ELSE IF parentId = childId
               THEN rejected(SelfLinkError)
               ELSE req' = [req EXCEPT ![r] =
                              [Idle EXCEPT !.kind = "link", !.pc = "findSpecs",
                                           !.user = user, !.parentId = parentId,
                                           !.childId = childId,
                                           !.parentSpec = "pending",
                                           !.childSpec = "pending"]]
  /\ UNCHANGED <<specs, nextId, revisions, edges>>

\* Promise.all of the two findById calls: the reads resolve in either order;
\* the handler goes on when both have.
LinkSpecsFound(r, parentSpec, childSpec) ==
  IF "pending" \in {parentSpec, childSpec}
    THEN req' = [req EXCEPT ![r].parentSpec = parentSpec, ![r].childSpec = childSpec]
    ELSE IF parentSpec = NULL
      THEN req' = [req EXCEPT ![r].pc = "done", ![r].parentSpec = parentSpec,
                              ![r].childSpec = childSpec, ![r].resp = "NOT_FOUND"]
      ELSE IF childSpec = NULL
        THEN req' = [req EXCEPT ![r].pc = "done", ![r].parentSpec = parentSpec,
                                ![r].childSpec = childSpec, ![r].resp = "NOT_FOUND"]
        ELSE req' = [req EXCEPT ![r].pc = "findLink", ![r].parentSpec = parentSpec,
                                ![r].childSpec = childSpec]

LinkFindParentSpec(r) ==
  /\ req[r].kind = "link" /\ req[r].pc = "findSpecs" /\ req[r].parentSpec = "pending"
  /\ LinkSpecsFound(r, IF specs[req[r].parentId] = NoDocument THEN NULL ELSE "found",
                    req[r].childSpec)
  /\ UNCHANGED <<specs, nextId, revisions, edges>>

LinkFindChildSpec(r) ==
  /\ req[r].kind = "link" /\ req[r].pc = "findSpecs" /\ req[r].childSpec = "pending"
  /\ LinkSpecsFound(r, req[r].parentSpec,
                    IF specs[req[r].childId] = NoDocument THEN NULL ELSE "found")
  /\ UNCHANGED <<specs, nextId, revisions, edges>>

LinkFindLink(r) ==
  /\ req[r].kind = "link" /\ req[r].pc = "findLink"
  /\ IF findLink(req[r].parentId, req[r].childId) # <<>>
       THEN Respond(r, DuplicateLinkError)
       ELSE req' = [req EXCEPT ![r].pc = "getAncestors",
                               ![r].queue = <<req[r].parentId>>, ![r].ancestors = <<>>]
  /\ UNCHANGED <<specs, nextId, revisions, edges>>

\* createLink -> hasCircularDependency -> getAncestors: one iteration of the
\* while loop per findParents call; when the queue is empty the check decides.
LinkGetAncestors(r) ==
  /\ req[r].kind = "link" /\ req[r].pc = "getAncestors"
  /\ LET currentId == Head(req[r].queue)
         visited == VisitParents(req[r].ancestors, Tail(req[r].queue), findParents(currentId))
     IN  IF visited.queue # <<>>
           THEN req' = [req EXCEPT ![r].queue = visited.queue,
                                   ![r].ancestors = visited.ancestors]
           ELSE IF hasCircularDependency(visited.ancestors, req[r].parentId, req[r].childId)
             THEN req' = [req EXCEPT ![r].pc = "done", ![r].queue = visited.queue,
                                     ![r].ancestors = visited.ancestors,
                                     ![r].resp = CircularDependencyError]
             ELSE req' = [req EXCEPT ![r].pc = "create", ![r].queue = visited.queue,
                                     ![r].ancestors = visited.ancestors]
  /\ UNCHANGED <<specs, nextId, revisions, edges>>

LinkCreate_noUniqueIndex(r) ==
  /\ req[r].kind = "link" /\ req[r].pc = "create"
  /\ edges' = Append(edges, [parentId |-> req[r].parentId,
                              childId |-> req[r].childId,
                              createdBy |-> req[r].user])
  /\ Respond(r, "CREATED")
  /\ UNCHANGED <<specs, nextId, revisions>>

\* BaseRepository.create on 'traceability'; the unique index on
\* (parentId, childId) makes insertOne throw on a duplicate pair.
LinkCreate(r) ==
  /\ req[r].kind = "link" /\ req[r].pc = "create"
  /\ IF findLink(req[r].parentId, req[r].childId) # <<>>
       THEN Respond(r, "INTERNAL_ERROR") /\ UNCHANGED edges
       ELSE /\ edges' = Append(edges, [parentId |-> req[r].parentId,
                                        childId |-> req[r].childId,
                                        createdBy |-> req[r].user])
            /\ Respond(r, "CREATED")
  /\ UNCHANGED <<specs, nextId, revisions>>

\* ---------------------------------- DELETE /api/traceability/link (unlink)
RECURSIVE deleteOne(_, _, _)
deleteOne(links, parentId, childId) ==
  IF links = <<>>
    THEN <<>>
    ELSE IF Head(links).parentId = parentId /\ Head(links).childId = childId
      THEN Tail(links)
      ELSE <<Head(links)>> \o deleteOne(Tail(links), parentId, childId)

StartUnlink(r, user, parentId, childId) ==
  /\ req[r].pc = "idle"
  /\ LET rejected(code) ==
           req' = [req EXCEPT ![r] = [Idle EXCEPT !.kind = "unlink", !.pc = "done",
                                       !.user = user, !.parentId = parentId,
                                       !.childId = childId, !.resp = code]]
     IN  IF user = NULL
           THEN rejected("AUTH_REQUIRED")
           ELSE IF parentId = 0 \/ childId = 0
             THEN rejected("VALIDATION_ERROR: parentId and childId are required")
             ELSE req' = [req EXCEPT ![r] =
                            [Idle EXCEPT !.kind = "unlink", !.pc = "deleteLink",
                                         !.user = user, !.parentId = parentId,
                                         !.childId = childId]]
  /\ UNCHANGED <<specs, nextId, revisions, edges>>

UnlinkDeleteLink(r) ==
  /\ req[r].kind = "unlink" /\ req[r].pc = "deleteLink"
  /\ IF findLink(req[r].parentId, req[r].childId) = <<>>
       THEN Respond(r, "NOT_FOUND") /\ UNCHANGED edges
       ELSE /\ edges' = deleteOne(edges, req[r].parentId, req[r].childId)
            /\ Respond(r, "OK")
  /\ UNCHANGED <<specs, nextId, revisions>>

\* ------------------------------------------ getDescendants / getAncestors
\* getDescendants, the body of the while loop after findChildren returned:
\* for every link, a child not yet in the set is added and queued.
RECURSIVE VisitChildren_noPush(_, _, _)
VisitChildren_noPush(descendants, queue, children) ==
  IF children = <<>>
    THEN [descendants |-> descendants, queue |-> queue]
    ELSE LET link == Head(children)
         IN  IF ~SetHas(descendants, link.childId)
               THEN VisitChildren_noPush(SetAdd(descendants, link.childId), queue,
                                         Tail(children))
               ELSE VisitChildren_noPush(descendants, queue, Tail(children))

RECURSIVE VisitChildren(_, _, _)
VisitChildren(descendants, queue, children) ==
  IF children = <<>>
    THEN [descendants |-> descendants, queue |-> queue]
    ELSE LET link == Head(children)
         IN  IF ~SetHas(descendants, link.childId)
               THEN VisitChildren(SetAdd(descendants, link.childId),
                                  Append(queue, link.childId), Tail(children))
               ELSE VisitChildren(descendants, queue, Tail(children))

\* A call of getDescendants(specId): the set is empty, the queue holds specId.
StartGetDescendants(r, specId) ==
  /\ req[r].pc = "idle"
  /\ req' = [req EXCEPT ![r] = [Idle EXCEPT !.kind = "getDescendants",
                                            !.pc = "findChildren", !.id = specId,
                                            !.queue = <<specId>>]]
  /\ UNCHANGED <<specs, nextId, revisions, edges>>

\* One iteration of the while loop per findChildren call; the call returns
\* Array.from(descendants) when the queue is empty.
GetDescendantsStep(r) ==
  /\ req[r].kind = "getDescendants" /\ req[r].pc = "findChildren"
  /\ LET currentId == Head(req[r].queue)
         visited == VisitChildren(req[r].descendants, Tail(req[r].queue),
                                  findChildren(currentId))
     IN  IF visited.queue # <<>>
           THEN req' = [req EXCEPT ![r].queue = visited.queue,
                                   ![r].descendants = visited.descendants]
           ELSE req' = [req EXCEPT ![r].pc = "done", ![r].queue = visited.queue,
                                   ![r].descendants = visited.descendants,
                                   ![r].resp = "OK"]
  /\ UNCHANGED <<specs, nextId, revisions, edges>>

\* A call of getAncestors(specId) by itself.
StartGetAncestors(r, specId) ==
  /\ req[r].pc = "idle"
  /\ req' = [req EXCEPT ![r] = [Idle EXCEPT !.kind = "getAncestors",
                                            !.pc = "findParents", !.id = specId,
                                            !.queue = <<specId>>]]
  /\ UNCHANGED <<specs, nextId, revisions, edges>>

GetAncestorsStep(r) ==
  /\ req[r].kind = "getAncestors" /\ req[r].pc = "findParents"
  /\ LET currentId == Head(req[r].queue)
         visited == VisitParents(req[r].ancestors, Tail(req[r].queue),
                                 findParents(currentId))
     IN  IF visited.queue # <<>>
           THEN req' = [req EXCEPT ![r].queue = visited.queue,
                                   ![r].ancestors = visited.ancestors]
           ELSE req' = [req EXCEPT ![r].pc = "done", ![r].queue = visited.queue,
                                   ![r].ancestors = visited.ancestors,
                                   ![r].resp = "OK"]
  /\ UNCHANGED <<specs, nextId, revisions, edges>>

\* ------------------------------- GET /api/traceability/graph/:specId (graph)
BuildFailedError == "INTERNAL_ERROR: Failed to build traceability graph"

\* The TraceabilityNode buildTree returns for a spec and its built children.
TraceabilityNode(id, spec, children) ==
  [id |-> id, title |-> spec.metadata.title, type |-> spec.metadata.type,
   status |-> spec.metadata.status, children |-> children]

\* An activation of buildTree(specId, visited): the spec it read, the child
\* links its loop has not reached yet, and the child nodes pushed so far.
BuildTreeCall(specId) ==
  [specId |-> specId, spec |-> NoDocument, links |-> <<>>, children |-> <<>>]

\* An activation returns node (null: NoDocument) to its caller, whose loop
\* pushes a node that is not null.
BuildTreeReturn(stack, node) ==
  LET callers == SubSeq(stack, 1, Len(stack) - 1)
      caller == callers[Len(callers)]
  IN  IF node = NoDocument
        THEN callers
        ELSE [callers EXCEPT ![Len(callers)] =
                [caller EXCEPT !.children = Append(caller.children, node)]]

\* buildTree runs on from the loop of the innermost activation up to the next
\* findById call: a child in visited returns null at once, a child not in
\* visited is added to visited and its activation reads the spec; an
\* activation whose loop is over returns its node.  The outermost activation
\* returns the tree.
RECURSIVE BuildTreeResume_noVisited(_, _)
BuildTreeResume_noVisited(stack, visited) ==
  LET frame == stack[Len(stack)]
  IN  IF frame.links = <<>>
        THEN LET node == TraceabilityNode(frame.specId, frame.spec, frame.children)
             IN  IF Len(stack) = 1
                   THEN [stack |-> <<>>, visited |-> visited, tree |-> node]
                   ELSE BuildTreeResume_noVisited(BuildTreeReturn(stack, node), visited)
        ELSE LET childId == Head(frame.links).childId
                 looped == [stack EXCEPT ![Len(stack)] =
                              [frame EXCEPT !.links = Tail(frame.links)]]
             IN  [stack |-> Append(looped, BuildTreeCall(childId)),
                  visited |-> SetAdd(visited, childId), tree |-> NoDocument]

RECURSIVE BuildTreeResume(_, _)
BuildTreeResume(stack, visited) ==
  LET frame == stack[Len(stack)]
  IN  IF frame.links = <<>>
        THEN LET node == TraceabilityNode(frame.specId, frame.spec, frame.children)
             IN  IF Len(stack) = 1
                   THEN [stack |-> <<>>, visited |-> visited, tree |-> node]
                   ELSE BuildTreeResume(BuildTreeReturn(stack, node), visited)
        ELSE LET childId == Head(frame.links).childId
                 looped == [stack EXCEPT ![Len(stack)] =
                              [frame EXCEPT !.links = Tail(frame.links)]]
             IN  IF SetHas(visited, childId)
                   THEN BuildTreeResume(looped, visited)
                   ELSE [stack |-> Append(looped, BuildTreeCall(childId)),
                         visited |-> SetAdd(visited, childId), tree |-> NoDocument]

\* The route goes on with the state buildTree reached: suspended at a
\* findById, or returned with the tree.
GraphResumed(r, resumed) ==
  IF resumed.stack # <<>>
    THEN req' = [req EXCEPT ![r].pc = "buildTree.findById",
                            ![r].stack = resumed.stack, ![r].visited = resumed.visited]
    ELSE req' = [req EXCEPT ![r].pc = "done", ![r].stack = resumed.stack,
                            ![r].visited = resumed.visited, ![r].tree = resumed.tree,
                            ![r].resp = "OK"]

StartGraph(r, user, specId) ==
  /\ req[r].pc = "idle"
  /\ IF user = NULL
       THEN req' = [req EXCEPT ![r] = [Idle EXCEPT !.kind = "graph", !.pc = "done",
                                        !.user = user, !.id = specId,
                                        !.resp = "AUTH_REQUIRED"]]
       ELSE req' = [req EXCEPT ![r] = [Idle EXCEPT !.kind = "graph", !.pc = "findById",
                                        !.user = user, !.id = specId]]
  /\ UNCHANGED <<specs, nextId, revisions, edges>>

\* The route verifies that the spec exists, then calls buildTree(specId) with
\* a new visited set: the root is added and its activation reads the spec.
GraphFindById(r) ==
  /\ req[r].kind = "graph" /\ req[r].pc = "findById"
  /\ IF specs[req[r].id] = NoDocument
       THEN Respond(r, "NOT_FOUND")
       ELSE req' = [req EXCEPT ![r].pc = "buildTree.findById",
                               ![r].stack = <<BuildTreeCall(req[r].id)>>,
                               ![r].visited = <<req[r].id>>]
  /\ UNCHANGED <<specs, nextId, revisions, edges>>

\* buildTree: specRepo.findById of the innermost activation; a spec that is
\* not found returns null (to the route: the 500 answer).
BuildTreeFindById(r) ==
  /\ req[r].kind = "graph" /\ req[r].pc = "buildTree.findById"
  /\ LET frame == req[r].stack[Len(req[r].stack)]
         spec == specs[frame.specId]
     IN  IF spec = NoDocument
           THEN IF Len(req[r].stack) = 1
                  THEN req' = [req EXCEPT ![r].pc = "done", ![r].stack = <<>>,
                                          ![r].resp = BuildFailedError]
                  ELSE GraphResumed(r, BuildTreeResume(BuildTreeReturn(req[r].stack, NoDocument),
                                                       req[r].visited))
           ELSE req' = [req EXCEPT ![r].pc = "buildTree.findChildren",
                                   ![r].stack[Len(req[r].stack)].spec = spec]
  /\ UNCHANGED <<specs, nextId, revisions, edges>>

\* buildTree: traceabilityRepo.findChildren of the innermost activation, then
\* its loop over the child links.
BuildTreeFindChildren(r) ==
  /\ req[r].kind = "graph" /\ req[r].pc = "buildTree.findChildren"
  /\ LET frame == req[r].stack[Len(req[r].stack)]
         loaded == [req[r].stack EXCEPT ![Len(req[r].stack)] =
                      [frame EXCEPT !.links = findChildren(frame.specId)]]
     IN  GraphResumed(r, BuildTreeResume(loaded, req[r].visited))
  /\ UNCHANGED <<specs, nextId, revisions, edges>>

\* ------------------------------------------- generateDiff (compare route)
\* A text is a sequence of characters; LF is the newline character.
LF == "\n"

Alphabet == {"a", "b", LF}

Texts == UNION { [1..n -> Alphabet] : n \in 0..MaxTextLen }

Formats == {"inline", "side-by-side"}

\* value.split('\n'): the pieces between the newline characters, one more
\* than there are newline characters.
RECURSIVE Split(_)
Split(value) ==
  IF \A i \in 1..Len(value) : value[i] # LF
    THEN <<value>>
    ELSE LET i == CHOOSE k \in 1..Len(value) :
                    value[k] = LF /\ \A j \in 1..(k - 1) : value[j] # LF
         IN  <<SubSeq(value, 1, i - 1)>> \o Split(SubSeq(value, i + 1, Len(value)))

\* The tokens Diff.diffLines compares: the lines of the text, each with its
\* newline character; a text that ends with a newline has no empty last token.
RECURSIVE LineTokens(_)
LineTokens(value) ==
  IF value = <<>>
    THEN <<>>
    ELSE IF \A i \in 1..Len(value) : value[i] # LF
      THEN <<value>>
      ELSE LET i == CHOOSE k \in 1..Len(value) :
                      value[k] = LF /\ \A j \in 1..(k - 1) : value[j] # LF
           IN  <<SubSeq(value, 1, i)>> \o LineTokens(SubSeq(value, i + 1, Len(value)))

\* The length of a longest common subsequence of two token lists.
RECURSIVE LcsLen(_, _)
LcsLen(old, new) ==
  IF old = <<>> \/ new = <<>>
    THEN 0
    ELSE IF Head(old) = Head(new)
      THEN 1 + LcsLen(Tail(old), Tail(new))
      ELSE LET a == LcsLen(Tail(old), new)
               b == LcsLen(old, Tail(new))
           IN  IF a >= b THEN a ELSE b

\* The shortest edit scripts from old to new, token by token: a token of a
\* longest common subsequence is kept, every other token of old is removed
\* and every other token of new is added.
RECURSIVE EditScripts(_, _)
EditScripts(old, new) ==
  IF old = <<>> /\ new = <<>>
    THEN {<<>>}
    ELSE LET Prepend(type, token, scripts) ==
               { <<[type |-> type, value |-> token]>> \o script : script \in scripts }
             kept == IF old # <<>> /\ new # <<>> /\ Head(old) = Head(new)
                       THEN Prepend("unchanged", Head(old),
                                    EditScripts(Tail(old), Tail(new)))
                       ELSE {}
             removed == IF old # <<>> /\ LcsLen(Tail(old), new) = LcsLen(old, new)
                          THEN Prepend("removed", Head(old), EditScripts(Tail(old), new))
                          ELSE {}
             added == IF new # <<>> /\ LcsLen(old, Tail(new)) = LcsLen(old, new)
                        THEN Prepend("added", Head(new), EditScripts(old, Tail(new)))
                        ELSE {}
         IN  kept \cup removed \cup added

\* The change objects of an edit script: consecutive tokens of one kind are
\* joined into one change, whose value is their concatenation.
RECURSIVE ChangeLists(_)
ChangeLists(script) ==
  IF script = <<>>
    THEN {<<>>}
    ELSE LET type == script[1].type
             runs == { n \in 1..Len(script) : \A i \in 1..n : script[i].type = type }
             Join(n) == LET RECURSIVE Concat(_)
                            Concat(i) == IF i > n THEN <<>>
                                         ELSE script[i].value \o Concat(i + 1)
                        IN  Concat(1)
         IN  UNION { { <<[value |-> Join(n), added |-> type = "added",
                         removed |-> type = "removed"]>> \o rest :
                       rest \in ChangeLists(SubSeq(script, n + 1, Len(script))) } :
                     n \in runs }

\* Diff.diffLines(oldContent, newContent), a function of the 'diff' package:
\* the change list of a shortest line edit script.  Which of the shortest
\* scripts it returns is the package's choice: any of them.
diffLines(oldContent, newContent) ==
  UNION { ChangeLists(script) :
            script \in EditScripts(LineTokens(oldContent), LineTokens(newContent)) }

\* format === 'inline' ? lineNumber++ : otherNumber: the value of the
\* expression and the counter after it.
InlineNumber_preIncrement(format, lineNumber, otherNumber) ==
  IF format = "inline"
    THEN [value |-> lineNumber + 1, lineNumber |-> lineNumber + 1]
    ELSE [value |-> otherNumber, lineNumber |-> lineNumber]

InlineNumber(format, lineNumber, otherNumber) ==
  IF format = "inline"
    THEN [value |-> lineNumber, lineNumber |-> lineNumber + 1]
    ELSE [value |-> otherNumber, lineNumber |-> lineNumber]

\* The block pushed for a line of a change: an added block carries
\* newLineNumber, a removed block oldLineNumber, an unchanged block both.
DiffBlock_bothNumbers(change, line, lineNumber, oldLineNumber, newLineNumber) ==
  [type |-> IF change.added THEN "added"
            ELSE IF change.removed THEN "removed" ELSE "unchanged",
   content |-> line, lineNumber |-> lineNumber,
   oldLineNumber |-> oldLineNumber, newLineNumber |-> newLineNumber]

DiffBlock(change, line, lineNumber, oldLineNumber, newLineNumber) ==
  IF change.added
    THEN [type |-> "added", content |-> line, lineNumber |-> lineNumber,
          newLineNumber |-> newLineNumber]
    ELSE IF change.removed
      THEN [type |-> "removed", content |-> line, lineNumber |-> lineNumber,
            oldLineNumber |-> oldLineNumber]
      ELSE [type |-> "unchanged", content |-> line, lineNumber |-> lineNumber,
            oldLineNumber |-> oldLineNumber, newLineNumber |-> newLineNumber]

\* The state of generateDiff after the for loop over lines of one change.
RECURSIVE PushLines(_, _, _, _)
PushLines(slot, change, lines, format) ==
  IF lines = <<>>
    THEN slot
    ELSE LET number == InlineNumber(format, slot.lineNumber,
                                    IF change.added THEN slot.newLineNumber
                                    ELSE slot.oldLineNumber)
             block == DiffBlock(change, Head(lines), number.value,
                                slot.oldLineNumber, slot.newLineNumber)
             pushed ==
               [slot EXCEPT
                  !.diffBlocks = Append(@, block),
                  !.lineNumber = number.lineNumber,
                  !.oldLineNumber = IF change.added THEN @ ELSE @ + 1,
                  !.newLineNumber = IF ~change.added /\ change.removed THEN @ ELSE @ + 1]
         IN  PushLines(pushed, change, Tail(lines), format)

ChangeLines_noPop(change) == Split(change.value)

\* The lines of a change: value.split('\n') without its last piece when that
\* piece is empty.
ChangeLines(change) ==
  LET lines == Split(change.value)
  IN  IF lines[Len(lines)] = <<>> THEN SubSeq(lines, 1, Len(lines) - 1) ELSE lines

\* A call of generateDiff(oldContent, newContent, format), for a format among
\* formats: diffLines has returned changes and the three counters are 1.
StartGenerateDiff(r, oldContent, newContent, formats) ==
  /\ req[r].pc = "idle"
  /\ \E changes \in diffLines(oldContent, newContent) :
       \E format \in formats :
         req' = [req EXCEPT ![r] =
                   [Idle EXCEPT !.kind = "generateDiff", !.pc = "forChanges",
                                !.oldContent = oldContent, !.newContent = newContent,
                                !.format = format, !.changes = changes,
                                !.oldLineNumber = 1, !.newLineNumber = 1,
                                !.lineNumber = 1]]
  /\ UNCHANGED <<specs, nextId, revisions, edges>>

\* One iteration of the loop over changes; after the last, diffBlocks is
\* returned.
GenerateDiffChange(r) ==
  /\ req[r].kind = "generateDiff" /\ req[r].pc = "forChanges"
  /\ IF req[r].changes = <<>>
       THEN Respond(r, "OK")
       ELSE LET change == Head(req[r].changes)
                pushed == PushLines(req[r], change, ChangeLines(change), req[r].format)
            IN  req' = [req EXCEPT ![r] = [pushed EXCEPT !.changes = Tail(@)]]
  /\ UNCHANGED <<specs, nextId, revisions, edges>>

\* ------------------------------------------------- RevisionRepository reads
\* revisions.sort((a, b) => b.version - a.version): a stable sort, so
\* revisions of equal version keep the order the collection returned them in.
RECURSIVE SortByVersionDesc(_)
SortByVersionDesc(found) ==
  IF found = <<>>
    THEN <<>>
    ELSE LET sorted == SortByVersionDesc(SubSeq(found, 1, Len(found) - 1))
             last == found[Len(found)]
             before == SelectSeq(sorted, LAMBDA rev : rev.version >= last.version)
             after == SelectSeq(sorted, LAMBDA rev : rev.version < last.version)
         IN  before \o <<last>> \o after

\* findBySpecId(specId) without a limit.
findBySpecId(specId) ==
  SortByVersionDesc(SelectSeq(revisions, LAMBDA rev : rev.specId = specId))

\* findByVersion(specId, version): findOne, the first match or null.
findByVersion(specId, version) ==
  LET matches == SelectSeq(revisions,
                           LAMBDA rev : rev.specId = specId /\ rev.version = version)
  IN  IF matches = <<>> THEN NoDocument ELSE matches[1]

findLatest(specId) ==
  LET sorted == SortByVersionDesc(SelectSeq(revisions, LAMBDA rev : rev.specId = specId))
  IN  IF sorted = <<>> THEN NoDocument ELSE sorted[1]

\* A call of one of the three finders: one read of the collection.
FindBySpecId(r, specId) ==
  /\ req[r].pc = "idle"
  /\ req' = [req EXCEPT ![r] = [Idle EXCEPT !.kind = "findBySpecId", !.pc = "done",
                                            !.id = specId,
                                            !.found = findBySpecId(specId),
                                            !.resp = "OK"]]
  /\ UNCHANGED <<specs, nextId, revisions, edges>>

FindByVersion(r, specId, version) ==
  /\ req[r].pc = "idle"
  /\ req' = [req EXCEPT ![r] = [Idle EXCEPT !.kind = "findByVersion", !.pc = "done",
                                            !.id = specId, !.version = version,
                                            !.found = <<findByVersion(specId, version)>>,
                                            !.resp = "OK"]]
  /\ UNCHANGED <<specs, nextId, revisions, edges>>

FindLatest(r, specId) ==
  /\ req[r].pc = "idle"
  /\ req' = [req EXCEPT ![r] = [Idle EXCEPT !.kind = "findLatest", !.pc = "done",
                                            !.id = specId,
                                            !.found = <<findLatest(specId)>>,
                                            !.resp = "OK"]]
  /\ UNCHANGED <<specs, nextId, revisions, edges>>

\* ------------------------------------------ GET /api/specs/:id/revisions
StartRevisions(r, user, id) ==
  /\ req[r].pc = "idle"
  /\ IF user = NULL
       THEN req' = [req EXCEPT ![r] = [Idle EXCEPT !.kind = "revisions", !.pc = "done", !.id = id,
                                        !.user = user, !.resp = "AUTH_REQUIRED"]]
       ELSE IF ~hasPermission(RoleOf(user), "spec:read")
         THEN req' = [req EXCEPT ![r] = [Idle EXCEPT !.kind = "revisions", !.pc = "done", !.id = id,
                                          !.user = user, !.resp = "FORBIDDEN"]]
         ELSE req' = [req EXCEPT ![r] =
                        [Idle EXCEPT !.kind = "revisions", !.pc = "findById", !.id = id,
                                     !.user = user]]
  /\ UNCHANGED <<specs, nextId, revisions, edges>>

RevisionsFindById(r) ==
  /\ req[r].kind = "revisions" /\ req[r].pc = "findById"
  /\ IF specs[req[r].id] = NoDocument
       THEN Respond(r, "NOT_FOUND")
       ELSE req' = [req EXCEPT ![r].pc = "findBySpecId"]
  /\ UNCHANGED <<specs, nextId, revisions, edges>>

RevisionsFindBySpecId(r) ==
  /\ req[r].kind = "revisions" /\ req[r].pc = "findBySpecId"
  /\ req' = [req EXCEPT ![r].pc = "done", ![r].found = findBySpecId(req[r].id),
                        ![r].resp = "OK"]
  /\ UNCHANGED <<specs, nextId, revisions, edges>>

\* ------------------------------------------------ document specifications
LifeDocIds == 1..MaxLifeDocs

\* The steps of the handlers in flight.
DocStep(r) ==
  \/ CreateInsert(r)
  \/ PutFindById(r)
  \/ PutCreateRevision(r)
  \/ PutUpdateSpecFindById(r)
  \/ PutUpdateById(r)
  \/ TransitionFindById(r)
  \/ TransitionStageFindById(r)
  \/ TransitionUpdateById(r)
  \/ DeleteById(r)
  \/ StorageFailure(r)
  \/ Return(r)

DocStart(r) ==
  \/ \E user \in CreateUsers, title \in {"t1", ""} :
        nextId <= MaxLifeDocs /\ StartCreate(r, user, title)
  \/ \E user \in PutUsers, id \in LifeDocIds, body \in PutInputs :
        /\ Len(revisions) < MaxRevisions
        /\ StartPut(r, user, id, body.title, body.status, body.content)
  \/ \E user \in Users, id \in LifeDocIds, toStage \in Stages \cup {""} :
        StartTransition(r, user, id, toStage)
  \/ \E user \in Users, id \in LifeDocIds : StartDelete(r, user, id)

\* Requests on documents, one after another: a single handler at a time.
Next == DocStart(1) \/ DocStep(1)

Spec == Init /\ [][Next]_vars

\* Requests on documents and reads of their revisions, one after another.
RevisionRead(r) ==
  \/ \E specId \in LifeDocIds : FindBySpecId(r, specId)
  \/ \E specId \in LifeDocIds, version \in 1..(MaxRevisions + 1) :
        FindByVersion(r, specId, version)
  \/ \E specId \in LifeDocIds : FindLatest(r, specId)

NextRead == DocStart(1) \/ DocStep(1) \/ RevisionRead(1)

SpecRead == Init /\ [][NextRead]_vars

\* Creation, content updates and deletion, interleaved at their storage calls.
UpdateStep(r) ==
  \/ CreateInsert(r)
  \/ PutFindById(r)
  \/ PutCreateRevision(r)
  \/ PutUpdateSpecFindById(r)
  \/ PutUpdateById(r)
  \/ DeleteById(r)
  \/ StorageFailure(r)
  \/ Return(r)

UpdateStart(r) ==
  \/ \E user \in CreateUsers, title \in {"t1", ""} :
        nextId <= MaxLifeDocs /\ StartCreate(r, user, title)
  \/ \E user \in PutUsers, id \in LifeDocIds, body \in PutInputs :
        /\ Len(revisions) < MaxRevisions
        /\ StartPut(r, user, id, body.title, body.status, body.content)
  \/ \E user \in Users, id \in LifeDocIds : StartDelete(r, user, id)

NextUpdateConc == \E r \in Reqs : UpdateStart(r) \/ UpdateStep(r)

SpecUpdateConc == Init /\ [][NextUpdateConc]_vars

\* Content updates and transitions of one document, interleaved at their
\* storage calls: a Dev edits, a PM moves the document to Draft.
VersionStep(r) ==
  \/ CreateInsert(r)
  \/ PutFindById(r)
  \/ PutCreateRevision(r)
  \/ PutUpdateSpecFindById(r)
  \/ PutUpdateById(r)
  \/ TransitionFindById(r)
  \/ TransitionStageFindById(r)
  \/ TransitionUpdateById(r)
  \/ StorageFailure(r)
  \/ Return(r)

VersionStart(r) ==
  \/ nextId <= MaxLifeDocs /\ StartCreate(r, "PM", "t1")
  \/ \E id \in LifeDocIds :
        /\ Len(revisions) < MaxConcRevisions
        /\ StartPut(r, "Dev", id, "t2", "Done", "b2")
  \/ \E id \in LifeDocIds : StartTransition(r, "PM", id, "Draft")

NextVersionConc == \E r \in Reqs : VersionStart(r) \/ VersionStep(r)

SpecVersionConc == Init /\ [][NextVersionConc]_vars

\* Transition requests on one document, interleaved at their storage calls.
TransitionStep(r) ==
  \/ CreateInsert(r)
  \/ TransitionFindById(r)
  \/ TransitionStageFindById(r)
  \/ TransitionUpdateById(r)
  \/ StorageFailure(r)
  \/ Return(r)

TransitionStart(r) ==
  \/ nextId <= MaxLifeDocs /\ StartCreate(r, "PM", "t1")
  \/ \E user \in {"PM", "Dev"}, id \in LifeDocIds, toStage \in {"Draft", "Review", "Ready"} :
        StartTransition(r, user, id, toStage)

NextTransitionConc == \E r \in Reqs : TransitionStart(r) \/ TransitionStep(r)

SpecTransitionConc == Init /\ [][NextTransitionConc]_vars

\* The workflow of one document: transitions requested through the button
\* or directly at the endpoint, one request after another.
WorkflowStart(r) ==
  \/ nextId <= MaxLifeDocs /\ StartCreate(r, "PM", "t1")
  \/ \E userRole \in Roles, id \in LifeDocIds : WorkflowTransitionButton(r, userRole, id)
  \/ \E user \in Users, id \in LifeDocIds, toStage \in Stages :
        StartTransition(r, user, id, toStage)

NextWorkflow == WorkflowStart(1) \/ TransitionStep(1)

SpecWorkflow == Init /\ [][NextWorkflow]_vars

\* ---------------------------------------------------- link specification
LinkStep(r) ==
  \/ CreateInsert(r)
  \/ LinkFindParentSpec(r)
  \/ LinkFindChildSpec(r)
  \/ LinkFindLink(r)
  \/ LinkGetAncestors(r)
  \/ LinkCreate(r)
  \/ UnlinkDeleteLink(r)
  \/ StorageFailure(r)
  \/ Return(r)

LinkStart(r) ==
  \/ \E user \in CreateUsers : StartCreate(r, user, "t1")
  \/ \E user \in LinkUsers, parentId \in DocIds \cup {0}, childId \in DocIds \cup {0} :
        StartLink(r, user, parentId, childId)
  \/ \E user \in LinkUsers, parentId \in DocIds \cup {0}, childId \in DocIds \cup {0} :
        StartUnlink(r, user, parentId, childId)

\* Link requests, one after another: a single handler at a time.
NextLink == LinkStart(1) \/ LinkStep(1)

SpecLink == Init /\ [][NextLink]_vars

\* Link requests interleaved at their storage calls.
ConcDocIds == 1..MaxConcDocs

LinkConcStart(r) ==
  \/ \E user \in CreateUsers : nextId <= MaxConcDocs /\ StartCreate(r, user, "t1")
  \/ \E user \in {"PM"}, parentId \in ConcDocIds, childId \in ConcDocIds :
        StartLink(r, user, parentId, childId)
  \/ \E user \in {"PM"}, parentId \in ConcDocIds, childId \in ConcDocIds :
        StartUnlink(r, user, parentId, childId)

NextLinkConc == \E r \in Reqs : LinkConcStart(r) \/ LinkStep(r)

SpecLinkConc == Init /\ [][NextLinkConc]_vars

\* Documents with revisions and links, and their deletion, one request after
\* another.
CascadeStep(r) ==
  \/ CreateInsert(r)
  \/ PutFindById(r)
  \/ PutCreateRevision(r)
  \/ PutUpdateSpecFindById(r)
  \/ PutUpdateById(r)
  \/ DeleteById(r)
  \/ LinkFindParentSpec(r)
  \/ LinkFindChildSpec(r)
  \/ LinkFindLink(r)
  \/ LinkGetAncestors(r)
  \/ LinkCreate(r)
  \/ RevisionsFindById(r)
  \/ RevisionsFindBySpecId(r)
  \/ StorageFailure(r)
  \/ Return(r)

CascadeStart(r) ==
  \/ nextId <= MaxConcDocs /\ StartCreate(r, "PM", "t1")
  \/ \E id \in ConcDocIds :
        /\ Len(revisions) < MaxRevisions
        /\ StartPut(r, "Dev", id, "t2", "Idea", "b2")
  \/ \E id \in ConcDocIds : StartDelete(r, "PM", id)
  \/ \E parentId \in ConcDocIds, childId \in ConcDocIds :
        StartLink(r, "PM", parentId, childId)
  \/ \E user \in {"Dev", NULL}, id \in ConcDocIds : StartRevisions(r, user, id)

NextCascade == CascadeStart(1) \/ CascadeStep(1)

SpecCascade == Init /\ [][NextCascade]_vars

\* ---------------------------------------------------- graph specification
\* The graph walks on a stored edge set: the documents 1..MaxGraphDocs are
\* stored, and the 'traceability' collection holds any set of at most
\* MaxGraphEdges links among them (self-loops and cycles included), listed
\* by (parentId, childId).
GraphDocIds == 1..MaxGraphDocs

GraphLink(parentId, childId) ==
  [parentId |-> parentId, childId |-> childId, createdBy |-> "PM"]

LinkRank(link) == link.parentId * (MaxGraphDocs + 1) + link.childId

GraphEdgeSets ==
  UNION { { links \in [1..n -> { GraphLink(p, c) : p, c \in GraphDocIds }] :
              \A i \in 1..(n - 1) : LinkRank(links[i]) < LinkRank(links[i + 1]) } :
          n \in 0..MaxGraphEdges }

InitGraph ==
  /\ specs = [d \in GraphDocIds |->
                createSpec("t1", combineMarkdown([title |-> "t1", status |-> "Idea",
                                                  type |-> "epic"],
                                                 DefaultContent("t1")),
                           [title |-> "t1", status |-> "Idea", type |-> "epic"], "PM")]
  /\ nextId = MaxGraphDocs + 1
  /\ revisions = <<>>
  /\ edges \in GraphEdgeSets
  /\ req = [r \in Reqs |-> Idle]

GraphStart(r) ==
  \/ \E specId \in GraphDocIds : StartGetDescendants(r, specId)
  \/ \E specId \in GraphDocIds : StartGetAncestors(r, specId)
  \/ \E user \in {"PM", NULL}, specId \in GraphDocIds : StartGraph(r, user, specId)
  \/ \E parentId \in GraphDocIds, childId \in GraphDocIds :
        StartLink(r, "PM", parentId, childId)

GraphStep(r) ==
  \/ GetDescendantsStep(r)
  \/ GetAncestorsStep(r)
  \/ GraphFindById(r)
  \/ BuildTreeFindById(r)
  \/ BuildTreeFindChildren(r)
  \/ LinkFindParentSpec(r)
  \/ LinkFindChildSpec(r)
  \/ LinkFindLink(r)
  \/ LinkGetAncestors(r)
  \/ LinkCreate(r)
  \/ StorageFailure(r)
  \/ Return(r)

NextGraph == GraphStart(1) \/ GraphStep(1)

SpecGraph == InitGraph /\ [][NextGraph]_vars

\* ----------------------------------------------------- diff specification
DiffStart(r) ==
  /\ req[r].pc = "idle"
  /\ \E oldContent \in Texts, newContent \in Texts :
       StartGenerateDiff(r, oldContent, newContent, Formats)

DiffStep(r) ==
  \/ GenerateDiffChange(r)
  \/ Return(r)

NextDiff == DiffStart(1) \/ DiffStep(1)

SpecDiff == Init /\ [][NextDiff]_vars

\* ------------------------------------------------------------ properties
Exists(d) == specs[d] # NoDocument

StageOf(d) == specs[d].metadata.status

\* The entries of the transition table for a pair of stages.
TableEntries(from, to) ==
  { i \in 1..Len(WORKFLOW_TRANSITIONS) :
      WORKFLOW_TRANSITIONS[i].from = from /\ WORKFLOW_TRANSITIONS[i].to = to }

\* The snapshot an update request takes of the document it read.
SnapshotOf(r) ==
  createRevision(req[r].id, req[r].existing.currentVersion, req[r].existing.content,
                 req[r].existing.metadata, req[r].user)

RevisionsOf(d) == { i \in 1..Len(revisions) : revisions[i].specId = d }

PutInProgress == \E r \in Reqs : req[r].kind = "put" /\ InFlight(r)

\* C1: every change of a document's stage from A to B, by a transition
\* request or by a content update, is a pair of WORKFLOW_TRANSITIONS and is
\* made by a caller whose role is in that pair's allowedRoles.
C1_StageChangesFollowTable ==
  [][\A d \in DocIds :
       (specs[d] # NoDocument /\ specs'[d] # NoDocument
          /\ specs'[d].metadata.status # specs[d].metadata.status)
       => \E i \in TableEntries(specs[d].metadata.status, specs'[d].metadata.status) :
             RoleOf(specs'[d].updatedBy) \in WORKFLOW_TRANSITIONS[i].allowedRoles]_vars

\* C2: a transition request by role R on a document at stage A with target
\* B, for (A, B) in the table: when R is allowed it is not rejected and, once
\* it answers OK, the stage is B; when R is not allowed it answers FORBIDDEN
\* and the document is as it was read.
C2_TransitionByRole ==
  \A r \in Reqs :
    (req[r].kind = "transition" /\ req[r].pc = "done" /\ req[r].existing # NoDocument
       /\ TableEntries(req[r].existing.metadata.status, req[r].toStage) # {})
    => \A i \in TableEntries(req[r].existing.metadata.status, req[r].toStage) :
         IF RoleOf(req[r].user) \in WORKFLOW_TRANSITIONS[i].allowedRoles
           THEN /\ req[r].resp \in {"OK", "INTERNAL_ERROR"}
                /\ req[r].resp = "OK" =>
                     (Exists(req[r].id) /\ StageOf(req[r].id) = req[r].toStage)
           ELSE /\ req[r].resp = "FORBIDDEN"
                /\ specs[req[r].id] = req[r].existing

C2_Witness ==
  /\ \E r \in Reqs :
       /\ req[r].kind = "transition" /\ req[r].pc = "done" /\ req[r].resp = "OK"
       /\ req[r].existing.metadata.status = "Review" /\ req[r].toStage = "Ready"
       /\ req[r].user = "Stakeholder"
       /\ StageOf(req[r].id) = "Ready"

\* C3: a transition request on a document at stage A with a target B such
\* that (A, B) is not in the table (self transitions included) answers
\* INVALID_TRANSITION, whatever the role, and leaves the document unchanged.
C3_UndefinedPairInvalid ==
  \A r \in Reqs :
    (req[r].kind = "transition" /\ req[r].pc = "done" /\ req[r].existing # NoDocument
       /\ TableEntries(req[r].existing.metadata.status, req[r].toStage) = {})
    => /\ req[r].resp = "INVALID_TRANSITION"
       /\ specs[req[r].id] = req[r].existing

C3_Witness ==
  \E r \in Reqs :
    /\ req[r].kind = "transition" /\ req[r].pc = "done"
    /\ req[r].resp = "INVALID_TRANSITION"
    /\ req[r].existing.metadata.status = "Draft" /\ req[r].toStage = "Draft"
    /\ req[r].user = "QA"

C5_UpdateCreatesOneRevision ==
  [][\A r \in Reqs :
       (req[r].kind = "put" /\ req'[r] # req[r])
       => /\ revisions' # revisions =>
               /\ req[r].pc = "createRevision"
               /\ revisions' = Append(revisions, SnapshotOf(r))
               /\ SnapshotOf(r).version = specs[req[r].id].currentVersion
          /\ (req'[r].pc = "done" /\ req'[r].resp = "OK") =>
               /\ revisions[Len(revisions)] = SnapshotOf(r)
               /\ specs[req[r].id].currentVersion = req[r].existing.currentVersion
               /\ specs'[req[r].id].currentVersion = req[r].existing.currentVersion + 1]_vars

C5_Witness ==
  \E r \in Reqs :
    /\ req[r].kind = "put" /\ req[r].pc = "done" /\ req[r].resp = "OK"
    /\ req[r].existing.currentVersion = 2
    /\ specs[req[r].id].currentVersion = 3
    /\ Len(revisions) = 2 /\ revisions[2].version = 2

\* C6: whenever no update request is in progress, the currentVersion of
\* every document is the number of revisions stored for it plus 1.
C6_VersionCountsRevisions ==
  ~PutInProgress =>
     \A d \in DocIds :
        Exists(d) => specs[d].currentVersion = Cardinality(RevisionsOf(d)) + 1

\* C7: the revision log is a complete history: a document with
\* currentVersion n has exactly one revision for each version 1..n-1 and no
\* other, and every revision is stored as the content and metadata the live
\* document has at that version.
C7_CompleteHistory ==
  /\ [](~PutInProgress =>
          \A d \in DocIds :
             Exists(d) =>
               /\ \A i \in RevisionsOf(d) : revisions[i].version \in 1..(specs[d].currentVersion - 1)
               /\ \A v \in 1..(specs[d].currentVersion - 1) :
                     Cardinality({ i \in RevisionsOf(d) : revisions[i].version = v }) = 1)
  /\ [][\A i \in 1..Len(revisions') :
          i > Len(revisions) =>
            LET d == revisions'[i].specId
            IN  /\ specs[d] # NoDocument
                /\ revisions'[i].version = specs[d].currentVersion
                /\ revisions'[i].content = specs[d].content
                /\ revisions'[i].metadata = specs[d].metadata]_vars

\* C8: within an update request the document is written only after the
\* request's snapshot is stored, and a failed revision insert ends the
\* request with an error and leaves the document as it was.
C8_SnapshotFailClosed ==
  [][\A r \in Reqs :
       (req[r].kind = "put" /\ req'[r] # req[r])
       => /\ specs' # specs =>
               \E i \in 1..Len(revisions) : revisions[i] = SnapshotOf(r)
          /\ (req[r].pc = "createRevision" /\ revisions' = revisions) =>
               /\ specs' = specs
               /\ req'[r].pc = "done"
               /\ req'[r].resp = "INTERNAL_ERROR"]_vars

C8_Witness ==
  \E r \in Reqs :
    /\ req[r].kind = "put" /\ req[r].pc = "done" /\ req[r].resp = "INTERNAL_ERROR"
    /\ req[r].existing # NoDocument
    /\ \A i \in 1..Len(revisions) : revisions[i] # SnapshotOf(r)
    /\ specs[req[r].id] = req[r].existing

\* The documents from which x is reachable by one or more parent-to-child
\* edges of E: the least set closed under "parent of a member or of x".
RECURSIVE AncestorClosure(_, _)
AncestorClosure(S, E) ==
  LET T == S \cup { E[i].parentId : i \in { j \in 1..Len(E) : E[j].childId \in S } }
  IN  IF T = S THEN S ELSE AncestorClosure(T, E)

AncestorsIn(x, E) ==
  AncestorClosure({ E[i].parentId : i \in { j \in 1..Len(E) : E[j].childId = x } }, E)

Acyclic(E) == \A d \in DocIds : d \notin AncestorsIn(d, E)

\* C9: after any sequence of link creations and deletions that do not
\* overlap, no document is its own transitive ancestor.
C9_LinksAcyclic == Acyclic(edges)

C9_Witness ==
  /\ Len(edges) = 3
  /\ \E r \in Reqs :
       /\ req[r].kind = "link" /\ req[r].pc = "done" /\ req[r].resp = "CREATED"
       /\ req[r].parentId = 1 /\ req[r].childId = 3
       /\ 1 \in AncestorsIn(2, edges) /\ 2 \in AncestorsIn(3, edges)

\* C10: createLink(P, C) answers the circular-dependency error exactly when
\* C is a transitive ancestor of P in the stored edges, and then inserts no
\* edge; an edge is inserted only when C is not an ancestor of P.
C10_CircularRejected ==
  [][\A r \in Reqs :
       (req[r].kind = "link" /\ req'[r] # req[r])
       => LET circular == req[r].childId \in AncestorsIn(req[r].parentId, edges)
          IN  /\ (req'[r].pc = "done" /\ req'[r].resp = CircularDependencyError) =>
                   (circular /\ edges' = edges)
              /\ (req[r].pc = "getAncestors" /\ req'[r].pc = "done"
                    /\ req'[r].resp # "INTERNAL_ERROR") =>
                   (circular /\ req'[r].resp = CircularDependencyError)
              /\ (req[r].pc = "getAncestors" /\ req'[r].pc = "create") => ~circular
              /\ edges' # edges =>
                   (~circular /\ edges' = Append(edges, [parentId |-> req[r].parentId,
                                                          childId |-> req[r].childId,
                                                          createdBy |-> req[r].user]))]_vars

C10_Witness ==
  /\ \E i \in 1..Len(edges) : edges[i].parentId = 1 /\ edges[i].childId = 2
  /\ \E r \in Reqs :
       /\ req[r].kind = "link" /\ req[r].pc = "done"
       /\ req[r].parentId = 2 /\ req[r].childId = 1
       /\ req[r].resp = CircularDependencyError

\* C11: a link request of an authenticated caller with parentId = childId
\* ends at once with the self-link error, whatever the stored edges are, and
\* no stored edge joins a document to itself.
C11_SelfLinkRejected ==
  /\ \A r \in Reqs :
       (req[r].kind = "link" /\ req[r].user # NULL
          /\ req[r].parentId # 0 /\ req[r].parentId = req[r].childId)
       => (req[r].pc = "done" /\ req[r].resp = SelfLinkError)
  /\ \A i \in 1..Len(edges) : edges[i].parentId # edges[i].childId

C11_Witness ==
  \E r \in Reqs :
    /\ req[r].kind = "link" /\ req[r].pc = "done" /\ req[r].resp = SelfLinkError
    /\ Exists(req[r].parentId)
    /\ \E i \in 1..Len(edges) : req[r].parentId \in {edges[i].parentId, edges[i].childId}

C13_RevisionsAppendOnly ==
  [][/\ Len(revisions') >= Len(revisions)
     /\ \A i \in 1..Len(revisions) : revisions'[i] = revisions[i]]_vars

\* A document with a stored revision was deleted.
C13_Witness ==
  \E r \in Reqs :
    /\ req[r].kind = "delete" /\ req[r].pc = "done" /\ req[r].resp = "OK"
    /\ ~Exists(req[r].id)
    /\ RevisionsOf(req[r].id) # {}

\* C14: a step of a transition request stores no revision and changes no
\* edge; the only document it changes is the request's, when it answers OK,
\* and of that document only the stage (to the target) and updatedBy (to the
\* caller): content, title, currentVersion, createdBy and the other metadata
\* fields stay as they were.
C14_TransitionFrame ==
  [][\A r \in Reqs :
       (req[r].kind = "transition" /\ req'[r] # req[r])
       => /\ revisions' = revisions
          /\ edges' = edges
          /\ nextId' = nextId
          /\ req'[r].resp = "OK" => specs'[req[r].id] # specs[req[r].id]
          /\ \A d \in DocIds :
                specs'[d] # specs[d]
                => /\ d = req[r].id /\ req'[r].resp = "OK"
                   /\ specs[d] # NoDocument /\ specs'[d] # NoDocument
                   /\ specs'[d].metadata.status = req[r].toStage
                   /\ specs'[d].updatedBy = req[r].user
                   /\ specs'[d].content = specs[d].content
                   /\ specs'[d].title = specs[d].title
                   /\ specs'[d].currentVersion = specs[d].currentVersion
                   /\ specs'[d].createdBy = specs[d].createdBy
                   /\ specs'[d].metadata.title = specs[d].metadata.title
                   /\ specs'[d].metadata.type = specs[d].metadata.type]_vars

C14_Witness ==
  \E r \in Reqs :
    /\ req[r].kind = "transition" /\ req[r].pc = "done" /\ req[r].resp = "OK"
    /\ Exists(req[r].id)
    /\ StageOf(req[r].id) = req[r].toStage
    /\ specs[req[r].id].content = req[r].existing.content
    /\ specs[req[r].id].content.frontmatter.status # StageOf(req[r].id)

\* The documents reachable from x by one or more parent-to-child edges of E.
RECURSIVE DescendantClosure(_, _)
DescendantClosure(S, E) ==
  LET T == S \cup { E[i].childId : i \in { j \in 1..Len(E) : E[j].parentId \in S } }
  IN  IF T = S THEN S ELSE DescendantClosure(T, E)

DescendantsIn(x, E) ==
  DescendantClosure({ E[i].childId : i \in { j \in 1..Len(E) : E[j].parentId = x } }, E)

AcyclicGraph(E) == \A d \in GraphDocIds : d \notin AncestorsIn(d, E)

Listed(array) == { array[i] : i \in 1..Len(array) }

ListedOnce(array) == \A i, j \in 1..Len(array) : array[i] = array[j] => i = j

\* C15: on an acyclic edge set, getDescendants(x) lists exactly the documents
\* reachable from x by one or more parent-to-child edges and getAncestors(x)
\* exactly those reachable by one or more child-to-parent edges, each once
\* and never x.
C15_ExactClosure ==
  \A r \in Reqs :
    (req[r].pc = "done" /\ req[r].resp = "OK" /\ AcyclicGraph(edges))
    => /\ req[r].kind = "getDescendants"
            => /\ Listed(req[r].descendants) = DescendantsIn(req[r].id, edges)
               /\ ListedOnce(req[r].descendants)
               /\ req[r].id \notin Listed(req[r].descendants)
       /\ req[r].kind = "getAncestors"
            => /\ Listed(req[r].ancestors) = AncestorsIn(req[r].id, edges)
               /\ ListedOnce(req[r].ancestors)
               /\ req[r].id \notin Listed(req[r].ancestors)

\* The diamond 1 -> {2, 3} -> 4: the descendants of 1 and the ancestors of 4.
C15_Witness ==
  /\ AcyclicGraph(edges)
  /\ { <<edges[i].parentId, edges[i].childId>> : i \in 1..Len(edges) }
        = { <<1, 2>>, <<1, 3>>, <<2, 4>>, <<3, 4>> }
  /\ \E r \in Reqs :
       /\ req[r].kind = "getDescendants" /\ req[r].pc = "done" /\ req[r].resp = "OK"
       /\ req[r].id = 1
       /\ Listed(req[r].descendants) = {2, 3, 4}

\* The documents a walk has not added to its set yet, counted twice, plus
\* the work it has queued: a natural number.
WalkMeasure(slot) ==
  CASE slot.kind = "getDescendants" ->
         2 * Cardinality(GraphDocIds \ Listed(slot.descendants)) + Len(slot.queue)
    [] slot.kind \in {"getAncestors", "link"} ->
         2 * Cardinality(GraphDocIds \ Listed(slot.ancestors)) + Len(slot.queue)
    [] slot.kind = "graph" ->
         2 * Cardinality(GraphDocIds \ Listed(slot.visited))
           + (IF slot.pc = "buildTree.findById" THEN 1 ELSE 0)

Walking(slot) ==
  \/ slot.kind = "getDescendants" /\ slot.pc = "findChildren"
  \/ slot.kind = "getAncestors" /\ slot.pc = "findParents"
  \/ slot.kind = "link" /\ slot.pc = "getAncestors"
  \/ slot.kind = "graph" /\ slot.pc \in {"buildTree.findById", "buildTree.findChildren"}

\* The documents of the nodes of a tree.
RECURSIVE TreeIds(_)
TreeIds(node) ==
  {node.id} \cup UNION { TreeIds(node.children[i]) : i \in 1..Len(node.children) }

\* C16: on every edge set, cycles and self-loops included, each step of
\* getAncestors, getDescendants, the cycle check of createLink and buildTree
\* either ends the walk or strictly decreases the walk's measure, so the walk
\* ends within 2 * MaxGraphDocs + 1 storage calls; and a graph request never
\* answers that the tree could not be built: it answers OK with a tree whose
\* root is the requested document and whose nodes are the root and
\* descendants of it.
C16_WalksTerminate ==
  /\ [][\A r \in Reqs :
          (Walking(req[r]) /\ req'[r] # req[r])
          => \/ ~Walking(req'[r])
             \/ WalkMeasure(req'[r]) < WalkMeasure(req[r])]_vars
  /\ [](\A r \in Reqs :
          (req[r].kind = "graph" /\ req[r].pc = "done")
          => /\ req[r].resp # BuildFailedError
             /\ req[r].resp = "OK"
                  => /\ req[r].tree # NoDocument
                     /\ req[r].tree.id = req[r].id
                     /\ TreeIds(req[r].tree)
                           \subseteq {req[r].id} \cup DescendantsIn(req[r].id, edges))

\* The tree of document 1 on the cycle 1 -> 2 -> 1 with the self-loop 2 -> 2.
C16_Witness ==
  /\ { <<edges[i].parentId, edges[i].childId>> : i \in 1..Len(edges) }
        = { <<1, 2>>, <<2, 1>>, <<2, 2>> }
  /\ \E r \in Reqs :
       /\ req[r].kind = "graph" /\ req[r].pc = "done" /\ req[r].resp = "OK"
       /\ req[r].id = 1
       /\ TreeIds(req[r].tree) = {1, 2}
       /\ Len(req[r].tree.children) = 1
       /\ req[r].tree.children[1].children = <<>>

\* Every node of the tree has one child subtree per outgoing edge of its
\* document, in the order of the edges.
RECURSIVE OneSubtreePerEdge(_)
OneSubtreePerEdge(node) ==
  LET links == findChildren(node.id)
  IN  /\ Len(node.children) = Len(links)
      /\ \A i \in 1..Len(node.children) :
            /\ node.children[i].id = links[i].childId
            /\ OneSubtreePerEdge(node.children[i])

\* C17: on an acyclic edge set whose documents all exist, every node of the
\* tree a graph request returns has exactly one child subtree per outgoing
\* edge of its document: a document reachable through two parents appears
\* under both.
C17_SubtreePerEdge ==
  \A r \in Reqs :
    (req[r].kind = "graph" /\ req[r].pc = "done" /\ req[r].resp = "OK"
       /\ AcyclicGraph(edges) /\ \A d \in GraphDocIds : Exists(d))
    => OneSubtreePerEdge(req[r].tree)

\* The lines of a text: the pieces between its newline characters; a final
\* newline ends the last line and starts no other.
LinesOf(text) ==
  LET ends == { i \in 1..Len(text) : text[i] = LF }
      starts == {1} \cup { i + 1 : i \in ends }
      firsts == { i \in starts : i <= Len(text) }
      NextEnd(i) == IF \E e \in ends : e >= i
                      THEN CHOOSE e \in ends : e >= i /\ \A f \in ends : f >= i => e <= f
                      ELSE Len(text) + 1
      Nth(n) == CHOOSE i \in firsts : Cardinality({ j \in firsts : j < i }) = n - 1
  IN  [n \in 1..Cardinality(firsts) |-> SubSeq(text, Nth(n), NextEnd(Nth(n)) - 1)]

DiffDone(r) == req[r].kind = "generateDiff" /\ req[r].pc = "done"

\* C18: the diff of a text against itself has exactly one block per line of
\* the text, in order, each unchanged and with oldLineNumber =
\* newLineNumber = the number of the line; a final newline adds no block.
C18_SelfDiffUnchanged ==
  \A r \in Reqs :
    (DiffDone(r) /\ req[r].oldContent = req[r].newContent)
    => LET lines == LinesOf(req[r].oldContent)
           blocks == req[r].diffBlocks
       IN  /\ Len(blocks) = Len(lines)
           /\ \A i \in 1..Len(blocks) :
                 /\ blocks[i].type = "unchanged"
                 /\ blocks[i].content = lines[i]
                 /\ blocks[i].oldLineNumber = i
                 /\ blocks[i].newLineNumber = i

\* A two-line text with an empty second line and a final newline.
C18_Witness ==
  \E r \in Reqs :
    /\ DiffDone(r)
    /\ req[r].oldContent = <<"a", LF, LF>> /\ req[r].newContent = <<"a", LF, LF>>
    /\ Len(req[r].diffBlocks) = 2
    /\ req[r].diffBlocks[2].content = <<>>

\* C19: in inline format the lineNumber values of the returned blocks are
\* 1, 2, ..., n in output order, whatever the kinds of the blocks.
C19_InlineNumbering ==
  \A r \in Reqs :
    (DiffDone(r) /\ req[r].format = "inline")
    => \A i \in 1..Len(req[r].diffBlocks) : req[r].diffBlocks[i].lineNumber = i

\* An inline diff with an unchanged, a removed and an added block.
C19_Witness ==
  \E r \in Reqs :
    /\ DiffDone(r) /\ req[r].format = "inline"
    /\ Len(req[r].diffBlocks) = 3
    /\ { req[r].diffBlocks[i].type : i \in 1..3 } = {"unchanged", "removed", "added"}
    /\ req[r].diffBlocks[3].lineNumber = 3

\* C20: oldLineNumber is present exactly on the removed and unchanged blocks
\* and numbers them 1..k in output order; newLineNumber is present exactly
\* on the added and unchanged blocks and numbers them 1..m in output order;
\* the diff of the empty text against the two lines a, b is two added blocks
\* with newLineNumber 1 and 2.
C20_SideNumbering ==
  \A r \in Reqs :
    DiffDone(r)
    => LET blocks == req[r].diffBlocks
           olds == { i \in 1..Len(blocks) : blocks[i].type \in {"removed", "unchanged"} }
           news == { i \in 1..Len(blocks) : blocks[i].type \in {"added", "unchanged"} }
       IN  /\ \A i \in 1..Len(blocks) :
                 /\ blocks[i].type \in {"added", "removed", "unchanged"}
                 /\ ("oldLineNumber" \in DOMAIN blocks[i]) <=> (i \in olds)
                 /\ ("newLineNumber" \in DOMAIN blocks[i]) <=> (i \in news)
           /\ \A i \in olds :
                 blocks[i].oldLineNumber = Cardinality({ j \in olds : j <= i })
           /\ \A i \in news :
                 blocks[i].newLineNumber = Cardinality({ j \in news : j <= i })
           /\ (req[r].oldContent = <<>> /\ req[r].newContent = <<"a", LF, "b">>)
                => /\ Len(blocks) = 2
                   /\ blocks[1].type = "added" /\ blocks[2].type = "added"
                   /\ blocks[1].content = <<"a">> /\ blocks[2].content = <<"b">>
                   /\ blocks[1].newLineNumber = 1 /\ blocks[2].newLineNumber = 2

C20_Witness ==
  \E r \in Reqs :
    /\ DiffDone(r) /\ req[r].format = "side-by-side"
    /\ req[r].oldContent = <<>> /\ req[r].newContent = <<"a", LF, "b">>
    /\ Len(req[r].diffBlocks) = 2
    /\ req[r].diffBlocks[2].newLineNumber = 2

\* C21: findBySpecId(d) lists all and only the revisions of d by strictly
\* descending version; findLatest(d) is the revision of d with the highest
\* version, or null when d has none; findByVersion(d, v) is a revision of d
\* with version v, or null when d has none with that version.
C21_RevisionFinders ==
  \A r \in Reqs :
    req[r].pc = "done"
    => LET mine == { revisions[i] : i \in RevisionsOf(req[r].id) }
           found == req[r].found
       IN  /\ req[r].kind = "findBySpecId"
                => /\ Listed(found) = mine
                   /\ Len(found) = Cardinality(RevisionsOf(req[r].id))
                   /\ \A i \in 1..(Len(found) - 1) :
                         found[i].version > found[i + 1].version
           /\ req[r].kind = "findLatest"
                => IF mine = {}
                     THEN found[1] = NoDocument
                     ELSE /\ found[1] \in mine
                          /\ \A rev \in mine : rev.version <= found[1].version
           /\ req[r].kind = "findByVersion"
                => IF \E rev \in mine : rev.version = req[r].version
                     THEN found[1] \in mine /\ found[1].version = req[r].version
                     ELSE found[1] = NoDocument

\* C22: an edge is added only by a request of a caller whose role has
\* traceability:create and removed only by a request of a caller whose role
\* has traceability:delete.
C22_LinksAuthorized ==
  [][edges' # edges
       => \E r \in Reqs :
            /\ req'[r] # req[r]
            /\ req[r].user # NULL
            /\ IF Len(edges') > Len(edges)
                 THEN hasPermission(RoleOf(req[r].user), "traceability:create")
                 ELSE hasPermission(RoleOf(req[r].user), "traceability:delete")]_vars

\* C23: a document is created at stage Idea with currentVersion 1 and no
\* revisions, and no step afterwards lowers its currentVersion.
C23_VersionMonotone ==
  [][\A d \in DocIds :
       /\ (specs[d] = NoDocument /\ specs'[d] # NoDocument)
            => /\ specs'[d].metadata.status = "Idea"
               /\ specs'[d].currentVersion = 1
               /\ \A i \in 1..Len(revisions') : revisions'[i].specId # d
       /\ (specs[d] # NoDocument /\ specs'[d] # NoDocument)
            => specs'[d].currentVersion >= specs[d].currentVersion]_vars

\* C24: when link-creation requests overlap, no reachable state holds a
\* cycle of edges: no document is among its own transitive ancestors.
C24_OverlapAcyclic ==
  \A d \in DocIds : Exists(d) => d \notin AncestorsIn(d, edges)

\* A step of transition request r writes the stage of its document.
TransitionWrites(r) ==
  /\ req[r].kind = "transition" /\ req'[r] # req[r]
  /\ specs'[req[r].id] # specs[req[r].id]

C26_RevisionVersionsUnique ==
  \A i, j \in 1..Len(revisions) :
    (revisions[i].specId = revisions[j].specId
       /\ revisions[i].version = revisions[j].version) => i = j

\* C27: an update request that ends in an error response after it inserted
\* its snapshot (the document write failed or found no document) leaves no
\* revision stored for that request.
C27_FailedUpdateLeavesNoTrace ==
  [][\A r \in Reqs :
       (/\ req[r].kind = "put"
        /\ req[r].pc \in {"updateSpec.findById", "updateSpec.updateById"}
        /\ req'[r].pc = "done" /\ req'[r].resp # "OK")
       => \A i \in 1..Len(revisions') : revisions'[i] # SnapshotOf(r)]_vars

\* A document that was stored and has been deleted.
Deleted(d) == d < nextId /\ specs[d] = NoDocument

\* C28: edges only connect existing documents: a link is inserted only when
\* both documents exist, and after a document is deleted no stored edge has
\* it as parentId or childId and a request for its revisions returns none.
C28_EdgesConnectExisting ==
  /\ [][\A i \in 1..Len(edges') :
          i > Len(edges) => Exists(edges'[i].parentId) /\ Exists(edges'[i].childId)]_vars
  /\ [](\A d \in DocIds :
          Deleted(d)
          => /\ \A i \in 1..Len(edges) : edges[i].parentId # d /\ edges[i].childId # d
             /\ \A r \in Reqs :
                   (req[r].kind = "revisions" /\ req[r].id = d /\ req[r].pc = "done")
                   => req[r].found = <<>>)

\* The stages some role in 'roles' may move a document to from stage.
Successors(roles, stage) ==
  UNION { Listed(getValidTransitions(role, stage)) : role \in roles }

RECURSIVE ReachFrom(_, _)
ReachFrom(roles, stages) ==
  LET next == stages \cup UNION { Successors(roles, s) : s \in stages }
  IN  IF next = stages THEN stages ELSE ReachFrom(roles, next)

\* The stages reachable from stage by one or more transitions of 'roles'.
ReachPlus(roles, stage) == ReachFrom(roles, Successors(roles, stage))

\* C29: the workflow has no dead end before Done: every stage other than
\* Done has a role with a permitted transition out of it (so every stored
\* document that is not Done is offered a transition to some role); Done is
\* reachable from Idea by permitted transitions; the only cycle among the
\* stages is Draft -> Review -> Draft; and no single role alone can carry a
\* document from Idea to Done.
C29_NoDeadEnd ==
  /\ \A stage \in Stages \ {"Done"} :
        \E role \in Roles : getValidTransitions(role, stage) # <<>>
  /\ \A d \in DocIds :
        (Exists(d) /\ StageOf(d) # "Done")
        => /\ \E role \in Roles : getValidTransitions(role, StageOf(d)) # <<>>
           /\ "Done" \in ReachPlus(Roles, StageOf(d))
  /\ "Done" \in ReachPlus(Roles, "Idea")
  /\ { stage \in Stages : stage \in ReachPlus(Roles, stage) } = {"Draft", "Review"}
  /\ \A stage \in Stages : stage \notin Successors(Roles, stage)
  /\ "Review" \in Successors(Roles, "Draft") /\ "Draft" \in Successors(Roles, "Review")
  /\ \A role \in Roles : "Done" \notin ReachPlus({role}, "Idea")

\* A document created at Idea has been carried to Done by offered
\* transitions alone; the last one, by QA, has just answered.
C29_Witness ==
  \E r \in Reqs :
    /\ req[r].kind = "transition" /\ req[r].pc = "done" /\ req[r].resp = "OK"
    /\ req[r].validTransitions = <<"Done">> /\ req[r].user = "QA"
    /\ req[r].existing.metadata.status = "InProgress"
    /\ StageOf(req[r].id) = "Done"
    /\ specs[req[r].id].currentVersion = 1

\* The transition endpoint let the request pass its two checks.
Accepted(r) == req[r].resp \notin {"INVALID_TRANSITION", "FORBIDDEN"}

\* C30: for the role R, the stage A read and the target B of every answered
\* transition request, canTransitionWorkflow(R, A, B) is true exactly when B
\* is in getValidTransitions(R, A), and then isValidTransition(A, B) is
\* true; a target offered by the button is accepted by the endpoint, and the
\* endpoint accepts no target the button would not offer.
C30_OfferedIsAccepted ==
  \A r \in Reqs :
    (req[r].kind = "transition" /\ req[r].pc = "done" /\ req[r].existing # NoDocument)
    => LET R == RoleOf(req[r].user)
           A == req[r].existing.metadata.status
           B == req[r].toStage
       IN  /\ canTransitionWorkflow(R, A, B) <=> B \in Listed(getValidTransitions(R, A))
           /\ canTransitionWorkflow(R, A, B) => isValidTransition(A, B)
           /\ req[r].validTransitions # <<>> => Accepted(r)
           /\ Accepted(r) <=> B \in Listed(getValidTransitions(R, A))

\* The button offered Ready to a Stakeholder on a document at Review, and the
\* endpoint accepted the target and wrote it.
C30_Witness ==
  \E r \in Reqs :
    /\ req[r].kind = "transition" /\ req[r].pc = "done" /\ req[r].resp = "OK"
    /\ req[r].user = "Stakeholder" /\ req[r].toStage = "Ready"
    /\ req[r].existing.metadata.status = "Review"
    /\ req[r].validTransitions = <<"Ready">>
    /\ StageOf(req[r].id) = "Ready"

====
